---- MODULE Spec2Model ----
(***************************************************************************)
(* Model of iat/models.py (oTree Implicit Association Test):               *)
(*   - the stimulus catalog STIMULI and the block list BLOCKS,             *)
(*   - Subsession.creating_session, which oTree runs once per round of a   *)
(*     session, in round order, before any participant plays,              *)
(*   - the Trial table (Trial.objects) filled by bulk_create,              *)
(*   - the fallback custom_export generator,                               *)
(*   - the recording of a response on a Trial.                             *)
(***************************************************************************)
EXTENDS Integers, Naturals, Sequences, FiniteSets, TLC

VARIABLES
    STIMULI,     \* models.py:39  catalog: class -> level -> words
    BLOCKS,      \* models.py:61  block definitions, one per round
    sessions,    \* the sessions created so far; the last one may still be building
    store,       \* Trial.objects: the persisted Trial rows, in primary-key order
    stimuli,     \* the local list `stimuli` of each loop iteration of the last call
    seed,        \* state the process-wide random generator was seeded with
    rngDraws,    \* number of random.shuffle calls made so far
    exportOut,   \* rows yielded by the step just taken, when it was a custom_export call
    attempts     \* number of response submissions handled so far

vars == <<STIMULI, BLOCKS, sessions, store, stimuli, seed, rngDraws, exportOut, attempts>>

----------------------------------------------------------------------------
(* Bounds of the exploration *)

MaxPlayers == 2
MaxRounds == 2
MaxTrials == 8
MaxFullShuffle == 3
MaxSeed == 7
MaxSessions == 2
MaxResponses == 2
MaxStored == 6

----------------------------------------------------------------------------
(* Python values *)

\* None, and a present value, of a nullable field
None == <<>>
Some(v) == <<v>>

\* seq[i] with Python's 0-based index and negative wrap-around; IndexError otherwise
PyIndex(seq, i) ==
    IF i >= 0 /\ i < Len(seq) THEN [ok |-> TRUE, val |-> seq[i + 1]]
    ELSE IF i < 0 /\ i >= 0 - Len(seq) THEN [ok |-> TRUE, val |-> seq[Len(seq) + i + 1]]
    ELSE [ok |-> FALSE, val |-> None]

----------------------------------------------------------------------------
(* Configuration data shipped in models.py *)

\* variant: one word of ('concepts', 'Science') is missing
ShippedSTIMULIShortList ==
    ("attributes" :>
        (("Male" :> <<"Man", "Son", "Father", "Boy", "Uncle", "Grandpa", "Husband">>) @@
         ("Female" :> <<"Mother", "Wife", "Aunt", "Woman", "Girl", "Grandma", "Daughter">>))) @@
    ("concepts" :>
        (("Science" :> <<"Astronomy", "Math", "Chemistry", "Physics", "Biology", "Engineering">>) @@
         ("Liberal Arts" :> <<"History", "Arts", "Humanities", "English", "Philosophy", "Music", "Literature">>)))

ShippedSTIMULI ==
    ("attributes" :>
        (("Male" :> <<"Man", "Son", "Father", "Boy", "Uncle", "Grandpa", "Husband">>) @@
         ("Female" :> <<"Mother", "Wife", "Aunt", "Woman", "Girl", "Grandma", "Daughter">>))) @@
    ("concepts" :>
        (("Science" :> <<"Astronomy", "Math", "Chemistry", "Physics", "Biology", "Geology", "Engineering">>) @@
         ("Liberal Arts" :> <<"History", "Arts", "Humanities", "English", "Philosophy", "Music", "Literature">>)))

ShippedBLOCKS ==
    << [label |-> "Practice 1", n |-> 14,
        left |-> << <<"concepts", "Liberal Arts">> >>,
        right |-> << <<"concepts", "Science">> >>],
       [label |-> "Practice 2", n |-> 14,
        left |-> << <<"attributes", "Female">> >>,
        right |-> << <<"attributes", "Male">> >>],
       [label |-> "Test 1", n |-> 28,
        left |-> << <<"attributes", "Female">>, <<"concepts", "Liberal Arts">> >>,
        right |-> << <<"attributes", "Male">>, <<"concepts", "Science">> >>],
       [label |-> "Test 2", n |-> 28,
        left |-> << <<"attributes", "Female">>, <<"concepts", "Liberal Arts">> >>,
        right |-> << <<"attributes", "Male">>, <<"concepts", "Science">> >>],
       [label |-> "Practice 3 (reversed)", n |-> 14,
        left |-> << <<"concepts", "Science">> >>,
        right |-> << <<"concepts", "Liberal Arts">> >>],
       [label |-> "Test 3", n |-> 28,
        left |-> << <<"attributes", "Female">>, <<"concepts", "Science">> >>,
        right |-> << <<"attributes", "Male">>, <<"concepts", "Liberal Arts">> >>],
       [label |-> "Test 4", n |-> 28,
        left |-> << <<"attributes", "Female">>, <<"concepts", "Science">> >>,
        right |-> << <<"attributes", "Male">>, <<"concepts", "Liberal Arts">> >>] >>

\* Constants.num_rounds = len(BLOCKS)
num_rounds == Len(BLOCKS)

\* Constants.capture_keycodes: the key code and the label of each side
capture_keycodes ==
    ("left" :> <<"KeyE", "E">>) @@ ("right" :> <<"KeyI", "I">>)

----------------------------------------------------------------------------
(* A small catalog and small block definitions ("fill in your own"): the    *)
(* configurations the build is explored with, consistent ones and          *)
(* inconsistent ones.                                                       *)

SmallSTIMULI ==
    ("attributes" :> ("Male" :> <<"Man">>)) @@
    ("concepts" :> (("Science" :> <<"Astronomy", "Math">>) @@
                    ("Liberal Arts" :> <<"History">>)))

BlockPair ==
    [label |-> "pair", n |-> 2,
     left |-> << <<"attributes", "Male">> >>,
     right |-> << <<"concepts", "Liberal Arts">> >>]
BlockTriple ==
    [label |-> "triple", n |-> 3,
     left |-> << <<"concepts", "Liberal Arts">> >>,
     right |-> << <<"concepts", "Science">> >>]
BlockTwoOnLeft ==
    [label |-> "two on left", n |-> 2,
     left |-> << <<"attributes", "Male">>, <<"concepts", "Liberal Arts">> >>,
     right |-> << >>]
BlockTooFew ==
    [label |-> "declares 3, has 2", n |-> 3,
     left |-> << <<"concepts", "Science">> >>,
     right |-> << >>]
BlockTooMany ==
    [label |-> "declares 1, has 2", n |-> 1,
     left |-> << <<"attributes", "Male">> >>,
     right |-> << <<"concepts", "Liberal Arts">> >>]
BlockUnknownLevel ==
    [label |-> "unknown level", n |-> 2,
     left |-> << <<"concepts", "Science">> >>,
     right |-> << <<"concepts", "Arts">> >>]
BlockUnknownClass ==
    [label |-> "unknown class", n |-> 1,
     left |-> << <<"names", "Male">> >>,
     right |-> << <<"concepts", "Liberal Arts">> >>]

BlockDefs ==
    {BlockPair, BlockTriple, BlockTwoOnLeft, BlockTooFew, BlockTooMany,
     BlockUnknownLevel, BlockUnknownClass}

RECURSIVE DeclaredTotal(_)
DeclaredTotal(blocks) ==
    IF blocks = <<>> THEN 0 ELSE Head(blocks).n + DeclaredTotal(Tail(blocks))

\* block lists of 1..MaxRounds rounds
BlockLists == UNION {[1..k -> BlockDefs] : k \in 1..MaxRounds}

----------------------------------------------------------------------------
(* Players and sessions (oTree collaborators) *)

SessionCode(s) == "session" \o ToString(s)
ParticipantCode(s, i) == "participant" \o ToString(s) \o "_" \o ToString(i)

\* the Player of participant i of session s in round r
Player(s, i, r) ==
    [session |-> [code |-> SessionCode(s)],
     participant |-> [code |-> ParticipantCode(s, i)],
     round_number |-> r]

\* Subsession.get_players() of the subsession of round r of session s
get_players(s, r) ==
    [i \in 1..sessions[s].num_participants |-> Player(s, i, r)]

NewSessionRecord(np) ==
    [num_participants |-> np, status |-> "building", nextRound |-> 1, error |-> "none"]

----------------------------------------------------------------------------
(* creating_session *)

\* variant: the round number used as the 0-based index
BlockNumOneBased(p) == p.round_number

\* block_num = p.round_number - 1
BlockNum(p) == p.round_number - 1

\* block_def = BLOCKS[block_num]
BlockDefOf(p) == PyIndex(BLOCKS, BlockNum(p))

\* variant: a missing key yields an empty word list instead of raising
LookupDefaultEmpty(stim_class, stim_lvl) ==
    IF stim_class \in DOMAIN STIMULI /\ stim_lvl \in DOMAIN STIMULI[stim_class]
    THEN [found |-> TRUE, vals |-> STIMULI[stim_class][stim_lvl]]
    ELSE [found |-> TRUE, vals |-> <<>>]

\* stim_vals = STIMULI[stim_class][stim_lvl]; a missing key raises KeyError
Lookup(stim_class, stim_lvl) ==
    IF stim_class \in DOMAIN STIMULI /\ stim_lvl \in DOMAIN STIMULI[stim_class]
    THEN [found |-> TRUE, vals |-> STIMULI[stim_class][stim_lvl]]
    ELSE [found |-> FALSE, vals |-> <<>>]

\* variant: the tuples carry the opposite side
ZipStimuliOtherSide(side, stim_class, stim_lvl, stim_vals) ==
    [k \in 1..Len(stim_vals) |->
        <<IF side = "left" THEN "right" ELSE "left", stim_class, stim_lvl, stim_vals[k]>>]

\* zip([side] * n_vals, [stim_class] * n_vals, [stim_lvl] * n_vals, stim_vals)
ZipStimuli(side, stim_class, stim_lvl, stim_vals) ==
    [k \in 1..Len(stim_vals) |-> <<side, stim_class, stim_lvl, stim_vals[k]>>]

\* for stim_class, stim_lvl in block_def[side]: ... stimuli.extend(...)
RECURSIVE ExtendSide(_, _, _, _)
ExtendSide(acc, side, pairs, j) ==
    IF j > Len(pairs) THEN [error |-> "none", stimuli |-> acc]
    ELSE LET got == Lookup(pairs[j][1], pairs[j][2]) IN
         IF ~got.found THEN [error |-> "KeyError", stimuli |-> acc]
         ELSE ExtendSide(acc \o ZipStimuli(side, pairs[j][1], pairs[j][2], got.vals),
                         side, pairs, j + 1)

\* for side in ('left', 'right'): ...
ExpandStimuli(block_def) ==
    LET l == ExtendSide(<<>>, "left", block_def.left, 1) IN
    IF l.error # "none" THEN l
    ELSE ExtendSide(l.stimuli, "right", block_def.right, 1)

\* bijections of 1..n
Perms(n) == {f \in [1..n -> 1..n] : \A i, j \in 1..n : f[i] = f[j] => i = j}

ApplyPerm(seq, f) == [i \in 1..Len(seq) |-> seq[f[i]]]

Rotate(seq, k) == [i \in 1..Len(seq) |-> seq[((i - 1 + k) % Len(seq)) + 1]]

\* random.shuffle(stimuli): every permutation of a list of up to MaxFullShuffle
\* elements; for a longer list the permutation the generator state (its seed
\* and the number of draws made) determines, taken among the rotations.
ShuffleOutcomes(seq, draws) ==
    IF Len(seq) <= MaxFullShuffle
    THEN {ApplyPerm(seq, f) : f \in Perms(Len(seq))}
    ELSE {Rotate(seq, (seed + 5 * draws) % Len(seq))}

\* variant: only too few stimuli are reported
CountTooFew(len, n) == len < n

\* if len(stimuli) != block_def['n']: raise ValueError
CountMismatch(len, n) == len # n

\* variant: the 0-based enumerate index is stored
TrialNumberZeroBased(trial_i) == trial_i

\* trial=trial_i+1
TrialNumber(trial_i) == trial_i + 1

\* block=p.round_number
TrialBlock(p) == p.round_number

\* Trial(block=..., trial=..., stimulus=..., stimulus_class=..., stimulus_level=..., player=p)
NewTrial(p, trial_i, stim_def) ==
    [block |-> TrialBlock(p),
     trial |-> TrialNumber(trial_i),
     stimulus |-> stim_def[4],
     stimulus_class |-> stim_def[2],
     stimulus_level |-> stim_def[3],
     response_key |-> None,
     response_correct |-> None,
     response_time_ms |-> None,
     player |-> p]

\* for trial_i, stim_def in enumerate(stimuli): trials.append(Trial(...))
TrialsFor(p, shuffled) ==
    [k \in 1..Len(shuffled) |-> NewTrial(p, k - 1, shuffled[k])]

\* The list a player's iteration hands to random.shuffle (empty when the
\* expansion raises before the shuffle is reached).
Unshuffled(p) ==
    LET bd == BlockDefOf(p) IN
    IF ~bd.ok THEN <<>>
    ELSE LET e == ExpandStimuli(bd.val) IN
         IF e.error # "none" THEN <<>> ELSE e.stimuli

\* variant: the count is compared before the list is shuffled
ShufflesBeforeCheckNone == 1 - 1

\* random.shuffle(stimuli) stands before the comparison of len(stimuli) with
\* block_def['n']: number of shuffles made when the comparison is reached
ShufflesBeforeCheck == 1

\* One iteration of the loop over players: the block lookup, the expansion,
\* the shuffle (whose outcome is `shuffled`), the count check, the Trial
\* objects.  draws = number of shuffles the iteration made.
Iteration(p, shuffled) ==
    LET bd == BlockDefOf(p) IN
    IF ~bd.ok
    THEN [error |-> "IndexError", draws |-> 0, stimuli |-> <<>>, trials |-> <<>>]
    ELSE LET e == ExpandStimuli(bd.val) IN
         IF e.error # "none"
         THEN [error |-> e.error, draws |-> 0, stimuli |-> e.stimuli, trials |-> <<>>]
         ELSE IF CountMismatch(Len(shuffled), bd.val.n)
         THEN [error |-> "ValueError", draws |-> ShufflesBeforeCheck, stimuli |-> shuffled,
               trials |-> <<>>]
         ELSE [error |-> "none", draws |-> 1, stimuli |-> shuffled,
               trials |-> TrialsFor(p, shuffled)]

\* for p in self.get_players(): ...   (acc: the list `trials`, the shuffles
\* made and the `stimuli` lists so far)
RECURSIVE PlayerLoop(_, _, _, _)
PlayerLoop(players, outs, i, acc) ==
    IF i > Len(players) THEN acc
    ELSE LET it == Iteration(players[i], outs[i])
             nxt == [error |-> it.error,
                     trials |-> acc.trials \o it.trials,
                     draws |-> acc.draws + it.draws,
                     stimuli |-> Append(acc.stimuli, it.stimuli)]
         IN IF it.error # "none" THEN nxt
            ELSE PlayerLoop(players, outs, i + 1, nxt)

\* variant: the last record of the list is not inserted
BulkCreateDropLast(table, trials) ==
    table \o SubSeq(trials, 1, Len(trials) - 1)

\* Trial.objects.bulk_create(trials)
BulkCreate(table, trials) == table \o trials

\* Subsession.creating_session of the next round of the session being built.
\* An exception leaves the call before bulk_create and ends the build.
CreatingSession ==
    /\ sessions # <<>>
    /\ LET s == Len(sessions)
           r == sessions[s].nextRound
           players == get_players(s, r)
           choices == UNION {ShuffleOutcomes(Unshuffled(players[i]), rngDraws + i - 1) :
                                i \in 1..Len(players)}
       IN /\ sessions[s].status = "building"
          /\ r <= num_rounds
          /\ \E outs \in [1..Len(players) -> choices] :
               /\ \A i \in 1..Len(players) :
                    outs[i] \in ShuffleOutcomes(Unshuffled(players[i]), rngDraws + i - 1)
               /\ LET res == PlayerLoop(players, outs, 1,
                               [error |-> "none", trials |-> <<>>, draws |-> 0,
                                stimuli |-> <<>>])
                  IN /\ stimuli' = res.stimuli
                     /\ rngDraws' = rngDraws + res.draws
                     /\ IF res.error # "none"
                        THEN /\ store' = store
                             /\ sessions' = [sessions EXCEPT
                                    ![s].status = "failed", ![s].error = res.error]
                        ELSE /\ store' = BulkCreate(store, res.trials)
                             /\ sessions' = [sessions EXCEPT
                                    ![s].nextRound = r + 1,
                                    ![s].status = IF r = num_rounds THEN "ready"
                                                  ELSE "building"]
    /\ exportOut' = <<>>
    /\ UNCHANGED <<STIMULI, BLOCKS, seed, attempts>>

----------------------------------------------------------------------------
(* Build of one session with a small configuration *)

Init ==
    /\ STIMULI = SmallSTIMULI
    /\ BLOCKS \in BlockLists
    /\ \E np \in 1..MaxPlayers :
         /\ np * DeclaredTotal(BLOCKS) <= MaxTrials
         /\ sessions = <<NewSessionRecord(np)>>
    /\ store = <<>>
    /\ stimuli = <<>>
    /\ seed = 0
    /\ rngDraws = 0
    /\ exportOut = <<>>
    /\ attempts = 0

Next == CreatingSession

Spec == Init /\ [][Next]_vars

----------------------------------------------------------------------------
(* Build of one session with the shipped configuration *)

InitShipped ==
    /\ STIMULI = ShippedSTIMULI
    /\ BLOCKS = ShippedBLOCKS
    /\ \E np \in 1..MaxPlayers : sessions = <<NewSessionRecord(np)>>
    /\ store = <<>>
    /\ stimuli = <<>>
    /\ seed \in 0..MaxSeed
    /\ rngDraws = 0
    /\ exportOut = <<>>
    /\ attempts = 0

SpecShipped == InitShipped /\ [][Next]_vars

----------------------------------------------------------------------------
(* Response recording *)

\* the keys the page captures: the key code of each side
CapturedKeys == {capture_keycodes[side][1] : side \in DOMAIN capture_keycodes}

\* latencies a submission may carry, in milliseconds
ResponseTimes == {300, 450}

\* the side the block of a Trial assigns the Trial's (class, level) to
SideOf(t) ==
    IF \E j \in DOMAIN BLOCKS[t.block].left :
          BLOCKS[t.block].left[j] = <<t.stimulus_class, t.stimulus_level>>
    THEN "left" ELSE "right"

\* variant: a later submission overwrites the recorded response
RespondOverwrite(t, key, rt) ==
    [t EXCEPT !.response_key = Some(key),
              !.response_correct = Some(key = capture_keycodes[SideOf(t)][1]),
              !.response_time_ms = Some(rt)]

\* Recording a response on a Trial: the key, whether the key is the one of
\* the stimulus' side, the latency; a Trial that already holds a response is
\* left as it is.
Respond(t, key, rt) ==
    IF t.response_key # None THEN t
    ELSE [t EXCEPT !.response_key = Some(key),
                   !.response_correct = Some(key = capture_keycodes[SideOf(t)][1]),
                   !.response_time_ms = Some(rt)]

\* the session a stored Trial belongs to has been built completely
Playable(t) ==
    \E s \in DOMAIN sessions :
        SessionCode(s) = t.player.session.code /\ sessions[s].status = "ready"

\* A participant's submission for the Trial with primary key k.
RecordResponse ==
    /\ attempts < MaxResponses
    /\ \E k \in DOMAIN store : \E key \in CapturedKeys : \E rt \in ResponseTimes :
         /\ Playable(store[k])
         /\ store' = [store EXCEPT ![k] = Respond(store[k], key, rt)]
    /\ attempts' = attempts + 1
    /\ exportOut' = <<>>
    /\ UNCHANGED <<STIMULI, BLOCKS, sessions, stimuli, seed, rngDraws>>

----------------------------------------------------------------------------
(* custom_export *)

fields_to_export ==
    <<"block", "trial", "stimulus", "stimulus_class", "stimulus_level",
      "response_key", "response_correct", "response_time_ms">>

\* getattr(trial, f): None while a response field is unset
GetAttr(trial, f) ==
    IF f \in {"response_key", "response_correct", "response_time_ms"}
    THEN trial[f] ELSE Some(trial[f])

\* otree.export.sanitize_for_csv: None is rendered '', True 1, False 0, any
\* other value as it is (the stimulus words hold no line breaks)
sanitize_for_csv(f, value) ==
    IF value = None THEN ""
    ELSE IF f = "response_correct" THEN (IF value[1] THEN 1 ELSE 0)
    ELSE value[1]

\* [trial.player.session.code, trial.player.participant.code] + [sanitize_for_csv(...) ...]
ExportRow(trial) ==
    <<trial.player.session.code, trial.player.participant.code>> \o
    [j \in DOMAIN fields_to_export |->
        sanitize_for_csv(fields_to_export[j], GetAttr(trial, fields_to_export[j]))]

\* variant: only the Trials of the players handed in are exported
custom_exportOfPlayers(players) ==
    << <<"session", "participant_code">> \o fields_to_export >> \o
    LET own == SelectSeq(store, LAMBDA t : t.player \in players)
    IN [k \in DOMAIN own |-> ExportRow(own[k])]

\* the rows the fallback custom_export(players) yields: the header, then one
\* row per Trial of Trial.objects.all(); `players` is not used
custom_export(players) ==
    << <<"session", "participant_code">> \o fields_to_export >> \o
    [k \in DOMAIN store |-> ExportRow(store[k])]

\* the players of every round of session s
PlayersOfSession(s) ==
    {Player(s, i, r) : i \in 1..sessions[s].num_participants, r \in 1..num_rounds}

\* A data export: oTree hands custom_export the players of the sessions asked for.
CustomExport ==
    /\ \E asked \in (SUBSET (DOMAIN sessions)) \ {{}} :
         exportOut' = custom_export(UNION {PlayersOfSession(s) : s \in asked})
    /\ UNCHANGED <<STIMULI, BLOCKS, sessions, store, stimuli, seed, rngDraws, attempts>>

----------------------------------------------------------------------------
(* Sessions created one after the other, played and exported *)

\* oTree creates a session of np participants; its rounds are then prepared
\* by creating_session, one call per round.
CreateSession ==
    /\ Len(sessions) < MaxSessions
    /\ sessions # <<>> => sessions[Len(sessions)].status # "building"
    /\ \E np \in 1..MaxPlayers :
         /\ Len(store) + np * DeclaredTotal(BLOCKS) <= MaxStored
         /\ sessions' = Append(sessions, NewSessionRecord(np))
    /\ exportOut' = <<>>
    /\ UNCHANGED <<STIMULI, BLOCKS, store, stimuli, seed, rngDraws, attempts>>

InitPlay ==
    /\ STIMULI = SmallSTIMULI
    /\ BLOCKS = <<BlockPair>>
    /\ sessions = <<>>
    /\ store = <<>>
    /\ stimuli = <<>>
    /\ seed = 0
    /\ rngDraws = 0
    /\ exportOut = <<>>
    /\ attempts = 0

NextPlay == CreateSession \/ CreatingSession \/ RecordResponse \/ CustomExport

SpecPlay == InitPlay /\ [][NextPlay]_vars

----------------------------------------------------------------------------
(* Vocabulary of the properties *)

\* the stored Trials owned by player p, in storage order
TrialsOfPlayer(p) == SelectSeq(store, LAMBDA t : t.player = p)

\* the stored Trials of session s
TrialsOfSession(s) == SelectSeq(store, LAMBDA t : t.player.session.code = SessionCode(s))

Participants(s) == 1..sessions[s].num_participants

\* creating_session of round r of session s has returned normally
Succeeded(s, r) == r < sessions[s].nextRound

\* creating_session of round r of session s has run (and returned or raised)
Attempted(s, r) ==
    \/ r < sessions[s].nextRound
    \/ r = sessions[s].nextRound /\ sessions[s].status = "failed"

PairsOf(block_def) ==
    {block_def.left[j] : j \in DOMAIN block_def.left} \cup
    {block_def.right[j] : j \in DOMAIN block_def.right}

\* every (category, level) pair of the block is in the catalog
Resolves(block_def) ==
    \A pr \in PairsOf(block_def) :
        pr[1] \in DOMAIN STIMULI /\ pr[2] \in DOMAIN STIMULI[pr[1]]

RECURSIVE SumLens(_)
SumLens(pairs) ==
    IF pairs = <<>> THEN 0
    ELSE Len(STIMULI[Head(pairs)[1]][Head(pairs)[2]]) + SumLens(Tail(pairs))

\* sum of the catalog-list lengths over the block's left and right pairs
CatalogSum(block_def) == SumLens(block_def.left) + SumLens(block_def.right)

\* number of times x occurs in seq
Count(seq, x) == Cardinality({k \in DOMAIN seq : seq[k] = x})

\* number of times the catalog expansion of a block yields the tuple x
Occurrences(block_def, x) ==
    Cardinality({j \in DOMAIN block_def[x[1]] : block_def[x[1]][j] = <<x[2], x[3]>>})
        * Count(STIMULI[x[2]][x[3]], x[4])

SideTuples(block_def, side) ==
    UNION {{<<side, block_def[side][j][1], block_def[side][j][2], w>> :
              w \in {STIMULI[block_def[side][j][1]][block_def[side][j][2]][k] :
                       k \in DOMAIN STIMULI[block_def[side][j][1]][block_def[side][j][2]]}} :
           j \in DOMAIN block_def[side]}

\* the tuples of the catalog expansion of a block whose pairs resolve
ExpectedTuples(block_def) == SideTuples(block_def, "left") \cup SideTuples(block_def, "right")

Range(seq) == {seq[k] : k \in DOMAIN seq}

----------------------------------------------------------------------------
(* Properties of the session build *)

\* C1: for every round whose creating_session succeeded and every player of
\* that round, exactly n Trial records are stored (n the block's declared
\* count) and their `trial` values are exactly 1..n, whatever the shuffle.
C1_TrialNumbersContiguous ==
    \A s \in DOMAIN sessions : \A r \in 1..num_rounds :
        Succeeded(s, r) =>
            \A i \in Participants(s) :
                LET ts == TrialsOfPlayer(Player(s, i, r)) IN
                /\ Len(ts) = BLOCKS[r].n
                /\ {ts[k].trial : k \in DOMAIN ts} = 1..BLOCKS[r].n
                /\ \A k, m \in DOMAIN ts : ts[k].trial = ts[m].trial => k = m

\* a two-player build whose first stored Trial is not the first catalog word
C1_Witness ==
    /\ Len(sessions) = 1
    /\ sessions[1].num_participants = 2
    /\ sessions[1].nextRound = 2
    /\ BLOCKS[1] = BlockTriple
    /\ store[1].trial = 1 /\ store[1].stimulus = "Math"
    /\ store[6].trial = 3 /\ store[6].stimulus = "History"

\* C2: when the catalog-list lengths of a block's pairs do not sum to its
\* declared n, creating_session of that round raises ValueError and no Trial
\* of any player of that round is stored.
C2_MismatchRaisesValueError ==
    \A s \in DOMAIN sessions : \A r \in 1..num_rounds :
        (Attempted(s, r) /\ Resolves(BLOCKS[r]) /\ CatalogSum(BLOCKS[r]) # BLOCKS[r].n) =>
            /\ sessions[s].status = "failed"
            /\ sessions[s].error = "ValueError"
            /\ sessions[s].nextRound = r
            /\ \A i \in Participants(s) : TrialsOfPlayer(Player(s, i, r)) = <<>>
            /\ \A k \in DOMAIN store :
                 store[k].player.session.code = SessionCode(s) => store[k].block # r

\* a build that raised ValueError on a block holding more stimuli than declared
C2_Witness ==
    /\ Len(sessions) = 1
    /\ sessions[1].error = "ValueError"
    /\ BLOCKS[sessions[1].nextRound] = BlockTooMany
    /\ sessions[1].num_participants = 2

C4_ShuffledIsCatalogExpansion ==
    (sessions # <<>> /\ sessions[Len(sessions)].status # "failed"
        /\ sessions[Len(sessions)].nextRound > 1) =>
        LET s == Len(sessions)
            block_def == BLOCKS[sessions[s].nextRound - 1]
        IN /\ Len(stimuli) = sessions[s].num_participants
           /\ \A i \in DOMAIN stimuli :
                /\ \A x \in Range(stimuli[i]) \cup ExpectedTuples(block_def) :
                     /\ x[1] \in {"left", "right"}
                     /\ Count(stimuli[i], x) = Occurrences(block_def, x)
                /\ \A m \in DOMAIN stimuli : \A x \in Range(stimuli[i]) :
                     Count(stimuli[i], x) = Count(stimuli[m], x)

\* two players of one round whose lists were shuffled differently
C4_Witness ==
    /\ Len(sessions) = 1
    /\ sessions[1].status # "failed"
    /\ sessions[1].nextRound = 2
    /\ BLOCKS[1] = BlockTwoOnLeft
    /\ Len(stimuli) = 2
    /\ stimuli[1] # stimuli[2]

\* C6: the generator runs exactly once per (participant, round): the number
\* of shuffles equals the number of pairs generated; the block index is
\* never out of range; every stored Trial has block = its player's round, in
\* 1..num_rounds, and a (category, level) pair of BLOCKS[block]; after a
\* complete build every pair has the Trials of its round's block, no pair
\* twice and none skipped.
C6_OncePerParticipantAndRound ==
    /\ Len(sessions) = 1 =>
         rngDraws = sessions[1].num_participants * (sessions[1].nextRound - 1)
                    + (IF sessions[1].error = "ValueError" THEN 1 ELSE 0)
    /\ \A s \in DOMAIN sessions : sessions[s].error # "IndexError"
    /\ \A k \in DOMAIN store :
         /\ store[k].block = store[k].player.round_number
         /\ store[k].block \in 1..num_rounds
         /\ <<store[k].stimulus_class, store[k].stimulus_level>>
                \in PairsOf(BLOCKS[store[k].block])
    /\ \A s \in DOMAIN sessions :
         sessions[s].status = "ready" =>
            \A r \in 1..num_rounds : \A i \in Participants(s) :
                LET ts == TrialsOfPlayer(Player(s, i, r)) IN
                /\ Len(ts) = CatalogSum(BLOCKS[r])
                /\ \A k \in DOMAIN ts : ts[k].block = r

\* a complete two-round, two-player build over two different blocks
C6_Witness ==
    /\ Len(sessions) = 1
    /\ sessions[1].status = "ready"
    /\ sessions[1].num_participants = 2
    /\ BLOCKS = <<BlockPair, BlockTwoOnLeft>>
    /\ rngDraws = 4

C9_CheckBeforeShuffle ==
    (Len(sessions) = 1 /\ sessions[1].error = "ValueError") =>
        rngDraws = sessions[1].num_participants * (sessions[1].nextRound - 1)

\* C9 (amended): the list is shuffled before its length is compared with the
\* declared n: a call that raises ValueError has made exactly one shuffle for
\* the failing generation, holds the shuffled list of the wrong length, and
\* has created no Trial; a call that raises KeyError has made none.
C9_ShuffleBeforeCheck ==
    Len(sessions) = 1 =>
        /\ sessions[1].error = "ValueError" =>
             /\ rngDraws = sessions[1].num_participants * (sessions[1].nextRound - 1) + 1
             /\ Len(stimuli) = 1
             /\ Len(stimuli[1]) # BLOCKS[sessions[1].nextRound].n
             /\ Len(stimuli[1]) = CatalogSum(BLOCKS[sessions[1].nextRound])
             /\ Len(store) = sessions[1].num_participants
                                * DeclaredTotal(SubSeq(BLOCKS, 1, sessions[1].nextRound - 1))
        /\ sessions[1].error = "KeyError" =>
             rngDraws = sessions[1].num_participants * (sessions[1].nextRound - 1)

\* a first-round call that raised ValueError after its single shuffle
C9_Witness ==
    /\ Len(sessions) = 1
    /\ sessions[1].error = "ValueError"
    /\ sessions[1].nextRound = 1
    /\ rngDraws = 1
    /\ BLOCKS[1] = BlockTooFew

----------------------------------------------------------------------------
(* The shipped configuration *)

\* C10: the shipped BLOCKS and STIMULI are consistent: 7 blocks declaring
\* 14, 14, 28, 28, 14, 28, 28; every referenced pair is in the catalog; each
\* declared n is the sum of its pairs' word-list lengths; so creating_session
\* never raises and a complete build stores 154 Trials per participant.
C10_ShippedConfigurationConsistent ==
    /\ num_rounds = 7
    /\ [r \in 1..num_rounds |-> BLOCKS[r].n] = <<14, 14, 28, 28, 14, 28, 28>>
    /\ \A r \in 1..num_rounds :
         Resolves(BLOCKS[r]) /\ CatalogSum(BLOCKS[r]) = BLOCKS[r].n
    /\ \A s \in DOMAIN sessions :
         /\ sessions[s].error = "none"
         /\ sessions[s].status # "failed"
         /\ \A r \in 1..num_rounds : Succeeded(s, r) =>
              \A i \in Participants(s) :
                  Len(TrialsOfPlayer(Player(s, i, r))) = BLOCKS[r].n
         /\ sessions[s].status = "ready" =>
              \A i \in Participants(s) :
                  Len(SelectSeq(store, LAMBDA t :
                        t.player.participant.code = ParticipantCode(s, i))) = 154

\* a complete build of the shipped seven rounds for two participants
C10_Witness ==
    /\ BLOCKS = ShippedBLOCKS
    /\ Len(sessions) = 1
    /\ sessions[1].status = "ready"
    /\ sessions[1].num_participants = 2
    /\ sessions[1].nextRound = 8
    /\ Len(store) = 308

----------------------------------------------------------------------------
(* Properties of response recording and of the export *)

Answered(t) == t.response_key # None

\* C5: recording is write-once: no step changes a Trial that already holds
\* a response; a submission changes at most the one Trial it addresses, and
\* only by filling its three response fields together; the fields set at
\* build time never change.
C5_ResponseWriteOnce ==
    [][/\ Len(store') >= Len(store)
       /\ \A k \in DOMAIN store :
            /\ Answered(store[k]) => store'[k] = store[k]
            /\ [store'[k] EXCEPT !.response_key = None, !.response_correct = None,
                                 !.response_time_ms = None]
                 = [store[k] EXCEPT !.response_key = None, !.response_correct = None,
                                    !.response_time_ms = None]
            /\ store'[k] # store[k] =>
                 /\ store'[k].response_key # None
                 /\ store'[k].response_correct # None
                 /\ store'[k].response_time_ms # None
       /\ attempts' # attempts =>
            /\ Len(store') = Len(store)
            /\ Cardinality({k \in DOMAIN store : store'[k] # store[k]}) <= 1]_vars

\* two submissions were handled and only one Trial holds a response: the
\* second one addressed the Trial already answered and was ignored
C5_Witness ==
    /\ attempts = 2
    /\ Len(store) >= 4
    /\ Cardinality({k \in DOMAIN store : Answered(store[k])}) = 1

\* C7 as stated: an export holds the header and one row per stored Trial of
\* one session, the exported one: all rows carry that session's code and the
\* row count is that session's Trial count plus one.
C7_ExportOneSession ==
    exportOut # <<>> =>
        \E s \in DOMAIN sessions :
            /\ Len(exportOut) = Len(TrialsOfSession(s)) + 1
            /\ \A k \in 2..Len(exportOut) : exportOut[k][1] = SessionCode(s)

\* C7 (amended): every export yields the fixed header row and then exactly
\* one row per Trial in storage, of whichever session (Trial.objects.all()
\* is not restricted to the players handed in), each joined with its own
\* player's session code and participant code: the row count is the number
\* of stored Trials plus one, and the rows are those of the storage as it is
\* at the call.
C7_ExportAllStoredTrials ==
    exportOut # <<>> =>
        /\ exportOut[1] = <<"session", "participant_code", "block", "trial", "stimulus",
                            "stimulus_class", "stimulus_level", "response_key",
                            "response_correct", "response_time_ms">>
        /\ Len(exportOut) = Len(store) + 1
        /\ \A k \in DOMAIN store :
             LET row == exportOut[k + 1]
                 t == store[k]
             IN /\ Len(row) = 10
                /\ row[1] = t.player.session.code
                /\ row[2] = t.player.participant.code
                /\ row[3] = t.block
                /\ row[4] = t.trial
                /\ row[5] = t.stimulus
                /\ row[6] = t.stimulus_class
                /\ row[7] = t.stimulus_level
                /\ IF Answered(t)
                   THEN /\ row[8] = t.response_key[1]
                        /\ row[9] \in {0, 1}
                        /\ (row[9] = 1) = t.response_correct[1]
                        /\ row[10] = t.response_time_ms[1]
                   ELSE row[8] = "" /\ row[9] = "" /\ row[10] = ""

\* an export over two sessions that both hold Trials, one Trial answered correctly
C7_Witness ==
    /\ exportOut # <<>>
    /\ Len(sessions) = 2
    /\ TrialsOfSession(1) # <<>>
    /\ TrialsOfSession(2) # <<>>
    /\ \E k \in 2..Len(exportOut) : exportOut[k][8] = "KeyE" /\ exportOut[k][9] = 1

====
